---- MODULE Spec2Model ----
(***************************************************************************)
(* The workflow orchestration engine of selfhealgke:                       *)
(*   src/agents/orchestrator_agent.py        (OrchestratorAgent)           *)
(*   src/agents/orchestrator_a2a_service.py  (OrchestratorAgentExecutor)   *)
(*                                                                         *)
(* The agent runs on one asyncio event loop.  A coroutine runs without     *)
(* interruption up to its next real suspension point; the only suspension  *)
(* points of the workflow code are the remote call inside _a2a_call        *)
(* (client.invoke under asyncio.wait_for) and the asyncio.sleep of the     *)
(* monitor and of _cleanup_completed_workflow.  _log_mcp_event,            *)
(* start_workflow and complete_workflow only write to the local logger.    *)
(* Every action below is therefore one such uninterrupted run: from the    *)
(* arrival of a request, a call result or a timer to the next suspension.  *)
(*                                                                         *)
(* Time is kept relative to the current instant: datetime_now is 0 and a   *)
(* timestamp t stands for the instant -t seconds ago.  AdvanceTime shifts  *)
(* every timestamp; a timestamp older than Horizon is kept at -Horizon     *)
(* (every comparison the code makes with it has the same outcome).         *)
(***************************************************************************)
EXTENDS Integers, Sequences, FiniteSets, TLC

\* ---- bounds of the model ------------------------------------------------
MaxWorkflows == 1
MaxRequests == 2
\* the workflows and the requests of a behaviour of PairSpec
MaxSiblings == 2
MaxPairRequests == 1
\* the approval requests and the minutes of a behaviour of ApprovalSpec
MaxApprovalRequests == 2
MaxApprovalClock == 50

\* ---- program constants --------------------------------------------------
\* timedelta(minutes=30), in seconds
workflow_timeout == 1800
\* asyncio.sleep(300) of _cleanup_completed_workflow
CLEANUP_DELAY == 300
\* ApprovalAgent: DEFAULT_TIMEOUT_MINUTES and CRITICAL_TIMEOUT_MINUTES, in minutes
default_timeout == 30
critical_timeout == 10

datetime_now == 0
Horizon == workflow_timeout + CLEANUP_DELAY

WorkflowIds == 1..MaxSiblings

None == [none |-> TRUE]
NoMessage == "<None>"

Services == {"rca", "remediation", "approval"}
Skills == {"analyze_failure", "propose_remediation", "request_approval", "execute_remediation"}

ServiceOf(skill) ==
    CASE skill = "analyze_failure" -> "rca"
      [] skill = "propose_remediation" -> "remediation"
      [] skill = "request_approval" -> "approval"
      [] skill = "execute_remediation" -> "remediation"

NonTerminal == {"started", "analyzing", "proposing", "awaiting_approval", "executing"}
Terminal == {"completed", "failed"}

\* ---- payloads -------------------------------------------------------------
mock_analysis == [classification |-> "Backend Error", failing_service |-> "unknown-service"]
rca_response == [classification |-> "UI Brittleness", failing_service |-> "checkout"]
\* an analysis that asks for no remediation
no_action_response == [classification |-> "No Action Required", failing_service |-> "none"]

Get(d, key, default) == IF key \in DOMAIN d THEN d[key] ELSE default

mock_remediation(analysis_result) ==
    [type |-> "restart_service",
     service |-> Get(analysis_result, "failing_service", "unknown-service"),
     risk_level |-> "medium"]
remediation_response == [type |-> "rollback", service |-> "checkout", risk_level |-> "high"]

\* variant of mock_approval that refuses the remediation
mock_approval_Rejects == [decision |-> "reject", user_id |-> "system"]

mock_approval == [decision |-> "approve", user_id |-> "system"]
approve_response == [decision |-> "approve", user_id |-> "alice"]
reject_response == [decision |-> "reject", user_id |-> "alice"]

mock_execution == [success |-> TRUE, verification_status |-> "passed"]
execution_response == [success |-> FALSE, verification_status |-> "failed"]

rejected_result == [status |-> "rejected", reason |-> "Rejected by approver"]

Responses(skill) ==
    CASE skill = "analyze_failure" -> {rca_response, no_action_response}
      [] skill = "propose_remediation" -> {remediation_response}
      [] skill = "request_approval" -> {approve_response, reject_response}
      [] skill = "execute_remediation" -> {execution_response}

VARIABLES
    status,             \* self.status
    rca_agents, remediation_agents, approval_agents,
    a2a_clients,        \* the services that have an A2A client
    active_workflows,   \* workflow_id -> WorkflowState
    next_id,            \* the number of workflows created so far (uuid4 is fresh)
    in_flight,          \* in_flight[w][skill]: the _a2a_call of workflow w awaiting its client
    cleanup_tasks,      \* the sleeping _cleanup_completed_workflow tasks
    shutdown,           \* cleanup() has run
    requests,           \* the number of update/cancel requests received
    transitions,        \* the stage assignments of the last operation, in order
    audit,              \* the audit events of the last operation, in order
    issued,             \* the calls the last operation handed to a client
    late,               \* the calls given up at their timeout: <<w, skill, "pending" or "dropped">>
    ingress,            \* the failure notification the last operation received: <<path, payload, reply>>
    mcp_sink_ok,        \* whether the write of an audit event (json.dumps, logger.info) succeeds
    approval_now,       \* ApprovalAgent: datetime.now(), in minutes
    active_requests,    \* ApprovalAgent: request_id -> ApprovalRequest
    approval_callbacks, \* ApprovalAgent: the request ids with a registered callback
    auto_reject_expired,\* ApprovalAgent: AUTO_REJECT_EXPIRED
    expired_requests,   \* the ids the running sweep of _monitor_expired_requests has still to handle
    callback_calls,     \* callback_calls[r]: how often the callback of request r has been invoked
    returned            \* what the last operation of the approval agent returned

orchestrator_vars ==
    <<status, rca_agents, remediation_agents, approval_agents, a2a_clients,
      active_workflows, next_id, in_flight, cleanup_tasks, shutdown, requests,
      transitions, audit, issued, late, ingress, mcp_sink_ok>>

\* the state of the approval agent, which is another process
approval_vars ==
    <<approval_now, active_requests, approval_callbacks, auto_reject_expired,
      expired_requests, callback_calls, returned>>

vars == <<orchestrator_vars, approval_vars>>

config == <<status, rca_agents, remediation_agents, approval_agents, a2a_clients>>

\* ---- the part of the state a workflow coroutine works on ------------------
Cur ==
    [active_workflows |-> active_workflows, in_flight |-> in_flight,
     cleanup_tasks |-> cleanup_tasks, late |-> late,
     transitions |-> <<>>, audit |-> [ok |-> mcp_sink_ok, events |-> <<>>],
     issued |-> <<>>, ingress |-> <<>>]

Commit(s) ==
    /\ active_workflows' = s.active_workflows
    /\ in_flight' = s.in_flight
    /\ cleanup_tasks' = s.cleanup_tasks
    /\ transitions' = s.transitions
    /\ audit' = s.audit.events
    /\ issued' = s.issued
    /\ late' = s.late
    /\ ingress' = s.ingress
    /\ mcp_sink_ok' = s.audit.ok
    /\ UNCHANGED approval_vars

\* variant of WorkflowState that creates the record in analyzing
WorkflowState_Analyzing(now) ==
    [status |-> "analyzing", created_at |-> now, updated_at |-> now,
     analysis_result |-> None, remediation_action |-> None,
     approval_response |-> None, execution_result |-> None,
     error_message |-> NoMessage]

WorkflowState(now) ==
    [status |-> "started", created_at |-> now, updated_at |-> now,
     analysis_result |-> None, remediation_action |-> None,
     approval_response |-> None, execution_result |-> None,
     error_message |-> NoMessage]

\* variant of _log_mcp_event without the try/except: the failed write reaches
\* the except clause of the caller, which fails the workflow
_log_mcp_event_Raises(s, event_type, w) ==
    IF s.audit.ok THEN [s EXCEPT !.audit.events = Append(@, <<event_type, w>>)]
    ELSE IF w \in DOMAIN s.active_workflows
         THEN [s EXCEPT !.active_workflows[w].status = "failed",
                        !.active_workflows[w].error_message = "MCP logging failed"]
         ELSE s

\* the event is written to the audit log; a write that fails is caught and the
\* event is lost
_log_mcp_event(s, event_type, w) ==
    [s EXCEPT !.audit = IF @.ok THEN [@ EXCEPT !.events = Append(@, <<event_type, w>>)] ELSE @]

\* variant of SetStatus that stamps updated_at with the oldest instant the model keeps
SetStatus_StaleStamp(s, w, new) ==
    [s EXCEPT !.active_workflows[w].status = new,
              !.active_workflows[w].updated_at = -Horizon,
              !.transitions = Append(@, <<w, s.active_workflows[w].status, new>>)]

SetStatus(s, w, new) ==
    [s EXCEPT !.active_workflows[w].status = new,
              !.active_workflows[w].updated_at = datetime_now,
              !.transitions = Append(@, <<w, s.active_workflows[w].status, new>>)]

\* variant of SetField that writes the field of every stored workflow
SetField_Shared(s, w, field, value) ==
    [s EXCEPT !.active_workflows =
                  [b \in DOMAIN @ |-> [@[b] EXCEPT ![field] = value, !.updated_at = datetime_now]]]

SetField(s, w, field, value) ==
    [s EXCEPT !.active_workflows[w][field] = value,
              !.active_workflows[w].updated_at = datetime_now]

\* variant of CreateCleanupTask that schedules no eviction
CreateCleanupTask_None(s, w) == s

\* asyncio.create_task(self._cleanup_completed_workflow(workflow_id))
CreateCleanupTask(s, w) ==
    [s EXCEPT !.cleanup_tasks = @ \cup {[workflow_id |-> w, wake_at |-> datetime_now + CLEANUP_DELAY]}]

\* variant of _fail_workflow that leaves the workflow as it is
_fail_workflow_ignored(s, w, error_message) == s

_fail_workflow(s, w, error_message) ==
    IF w \notin DOMAIN s.active_workflows THEN s
    ELSE LET s1 == SetStatus(s, w, "failed")
             s2 == [s1 EXCEPT !.active_workflows[w].error_message = error_message]
         IN  CreateCleanupTask(_log_mcp_event(s2, "workflow_failed", w), w)

_complete_workflow(s, w, result) ==
    IF w \notin DOMAIN s.active_workflows THEN s
    ELSE LET s1 == SetStatus(s, w, "completed")
             s2 == [s1 EXCEPT !.active_workflows[w].execution_result = result]
         IN  CreateCleanupTask(_log_mcp_event(s2, "workflow_completed", w), w)

\* variant of InvokeClient that sends the request a second time
InvokeClient_Retry(s, w, skill) ==
    [s EXCEPT !.in_flight[w][skill] = @ + 2,
              !.issued = Append(Append(@, <<w, skill>>), <<w, skill>>)]

\* client.invoke(skill, payload) is awaited: the coroutine is suspended
InvokeClient(s, w, skill) ==
    [s EXCEPT !.in_flight[w][skill] = @ + 1,
              !.issued = Append(@, <<w, skill>>)]

\* variant of _handle_execution_complete that records the result and leaves the stage
_handle_execution_complete_Recorded(s, w, execution_result) ==
    IF w \notin DOMAIN s.active_workflows THEN s
    ELSE _log_mcp_event(SetField(s, w, "execution_result", execution_result),
                        "execution_complete", w)

_handle_execution_complete(s, w, execution_result) ==
    IF w \notin DOMAIN s.active_workflows THEN s
    ELSE LET s1 == SetField(s, w, "execution_result", execution_result)
             s2 == _log_mcp_event(s1, "execution_complete", w)
         IN  _complete_workflow(s2, w, execution_result)

\* variant of _trigger_remediation_execution that hands the call to the client
\* before it assigns the stage
_trigger_remediation_execution_Early(s, w) ==
    IF remediation_agents = {} THEN _fail_workflow(s, w, "No remediation agents available")
    ELSE IF "remediation" \in a2a_clients
         THEN InvokeClient(s, w, "execute_remediation")
         ELSE _handle_execution_complete(
                  _log_mcp_event(SetStatus(s, w, "executing"),
                                 "remediation_a2a_failed_mock_fallback:execute", w),
                  w, mock_execution)

_trigger_remediation_execution(s, w) ==
    IF remediation_agents = {} THEN _fail_workflow(s, w, "No remediation agents available")
    ELSE LET s1 == SetStatus(s, w, "executing")
             s2 == _log_mcp_event(s1, "remediation_execution_triggered", w)
         IN  IF "remediation" \in a2a_clients
             THEN InvokeClient(s2, w, "execute_remediation")
             ELSE _handle_execution_complete(
                      _log_mcp_event(s2, "remediation_a2a_failed_mock_fallback:execute", w),
                      w, mock_execution)

\* variant of _handle_approval_received that executes whatever the decision is
_handle_approval_received_any(s, w, approval_response) ==
    IF w \notin DOMAIN s.active_workflows THEN s
    ELSE LET s1 == SetField(s, w, "approval_response", approval_response)
             s2 == _log_mcp_event(s1, "approval_received", w)
         IN  _trigger_remediation_execution(s2, w)

_handle_approval_received(s, w, approval_response) ==
    IF w \notin DOMAIN s.active_workflows THEN s
    ELSE LET s1 == SetField(s, w, "approval_response", approval_response)
             s2 == _log_mcp_event(s1, "approval_received", w)
         IN  IF Get(approval_response, "decision", None) = "approve"
             THEN _trigger_remediation_execution(s2, w)
             ELSE _complete_workflow(s2, w, rejected_result)

_trigger_approval_request(s, w) ==
    IF approval_agents = {} THEN _fail_workflow(s, w, "No approval agents available")
    ELSE LET s1 == SetStatus(s, w, "awaiting_approval")
             s2 == _log_mcp_event(s1, "approval_request_triggered", w)
         IN  IF "approval" \in a2a_clients
             THEN InvokeClient(s2, w, "request_approval")
             ELSE _handle_approval_received(
                      _log_mcp_event(s2, "approval_a2a_failed_mock_fallback", w),
                      w, mock_approval)

\* variant of _handle_remediation_proposed that executes the proposal at once
_handle_remediation_proposed_ungated(s, w, remediation_action) ==
    IF w \notin DOMAIN s.active_workflows THEN s
    ELSE LET s1 == SetField(s, w, "remediation_action", remediation_action)
             s2 == _log_mcp_event(s1, "remediation_proposed", w)
         IN  _trigger_remediation_execution(s2, w)

_handle_remediation_proposed(s, w, remediation_action) ==
    IF w \notin DOMAIN s.active_workflows THEN s
    ELSE LET s1 == SetField(s, w, "remediation_action", remediation_action)
             s2 == _log_mcp_event(s1, "remediation_proposed", w)
         IN  _trigger_approval_request(s2, w)

_trigger_remediation_proposal(s, w) ==
    IF remediation_agents = {} THEN _fail_workflow(s, w, "No remediation agents available")
    ELSE LET s1 == SetStatus(s, w, "proposing")
             s2 == _log_mcp_event(s1, "remediation_proposal_triggered", w)
         IN  IF "remediation" \in a2a_clients
             THEN InvokeClient(s2, w, "propose_remediation")
             ELSE _handle_remediation_proposed(
                      _log_mcp_event(s2, "remediation_a2a_failed_mock_fallback:propose", w),
                      w, mock_remediation(s2.active_workflows[w].analysis_result))

\* variant of _handle_analysis_complete that creates the record of an unknown workflow
_handle_analysis_complete_Upsert(s, w, analysis_result) ==
    IF w \notin DOMAIN s.active_workflows
    THEN [s EXCEPT !.active_workflows =
             (w :> [WorkflowState(datetime_now) EXCEPT !.analysis_result = analysis_result]) @@ @]
    ELSE LET s1 == SetField(s, w, "analysis_result", analysis_result)
             s2 == _log_mcp_event(s1, "analysis_complete", w)
         IN  _trigger_remediation_proposal(s2, w)

_handle_analysis_complete(s, w, analysis_result) ==
    IF w \notin DOMAIN s.active_workflows THEN s
    ELSE LET s1 == SetField(s, w, "analysis_result", analysis_result)
             s2 == _log_mcp_event(s1, "analysis_complete", w)
         IN  _trigger_remediation_proposal(s2, w)

_trigger_rca_analysis(s, w) ==
    IF rca_agents = {} THEN _fail_workflow(s, w, "No RCA agents available")
    ELSE LET s1 == SetStatus(s, w, "analyzing")
             s2 == _log_mcp_event(s1, "rca_analysis_triggered", w)
         IN  IF "rca" \in a2a_clients
             THEN InvokeClient(s2, w, "analyze_failure")
             ELSE _handle_analysis_complete(
                      _log_mcp_event(s2, "rca_a2a_failed_mock_fallback", w),
                      w, mock_analysis)

_start_incident_workflow(s, w) ==
    LET s1 == [s EXCEPT !.active_workflows = (w :> WorkflowState(datetime_now)) @@ @]
        s2 == _log_mcp_event(s1, "workflow_started", w)
    IN  _trigger_rca_analysis(s2, w)

\* ---- initial state: the agent as constructed ------------------------------
OrchestratorInit ==
    /\ status = "initializing"
    /\ rca_agents = {}
    /\ remediation_agents = {}
    /\ approval_agents = {}
    /\ a2a_clients = {}
    /\ active_workflows = <<>>
    /\ next_id = 0
    /\ in_flight = [w \in WorkflowIds |-> [k \in Skills |-> 0]]
    /\ cleanup_tasks = {}
    /\ shutdown = FALSE
    /\ requests = 0
    /\ transitions = <<>>
    /\ audit = <<>>
    /\ issued = <<>>
    /\ late = {}
    /\ ingress = <<>>
    /\ mcp_sink_ok = TRUE

RequestIds == 1..MaxApprovalRequests

NoReturn == [op |-> "none", request_id |-> 0, result |-> FALSE]

\* ApprovalAgent.__init__
ApprovalAgentInit ==
    /\ approval_now = 0
    /\ active_requests = <<>>
    /\ approval_callbacks = {}
    /\ expired_requests = <<>>
    /\ callback_calls = [r \in RequestIds |-> 0]
    /\ returned = NoReturn

\* both agents as constructed, AUTO_REJECT_EXPIRED at its default
Init ==
    /\ OrchestratorInit
    /\ ApprovalAgentInit
    /\ auto_reject_expired = TRUE

\* the services for which initialize_a2a() managed to create a client
ClientConfigs == SUBSET Services

\* initialize(): initialize_a2a, _discover_agents, the monitor task
Initialize(clients) ==
    /\ status = "initializing"
    /\ ~shutdown
    /\ a2a_clients' = clients
    /\ rca_agents' = {"rca-agent-localhost:8000"}
    /\ remediation_agents' = {"remediation-agent-localhost:8001"}
    /\ approval_agents' = {"approval-agent-localhost:8002"}
    /\ status' = "running"
    /\ Commit(Cur)
    /\ UNCHANGED <<next_id, shutdown, requests>>

\* the failure notifications received: complete, without trace_id, with an
\* error that is a string, and the empty dict
valid_payload ==
    [test_title |-> "checkout test", status |-> "failed", error |-> [type |-> "dict"],
     retries |-> 2, trace_id |-> "t-1"]
no_trace_payload ==
    [test_title |-> "checkout test", status |-> "failed", error |-> [type |-> "dict"], retries |-> 2]
str_error_payload ==
    [test_title |-> "checkout test", status |-> "failed", error |-> [type |-> "str"],
     retries |-> 2, trace_id |-> "t-1"]
empty_payload == [field \in {} |-> "absent"]

FailurePayloads == {valid_payload, no_trace_payload, str_error_payload, empty_payload}

required_fields == {"test_title", "status", "error", "retries", "trace_id"}

_validate_failure_payload(payload) ==
    /\ \A field \in required_fields : field \in DOMAIN payload
    /\ payload.error.type = "dict"

Reply(s, path, payload, reply) == [s EXCEPT !.ingress = <<path, payload, reply>>]

\* variant of uuid4 that hands out the first identifier again once the store is empty
uuid4_Recycled ==
    IF DOMAIN active_workflows = {} THEN 1 ELSE next_id + 1

\* uuid.uuid4(): an identifier that no earlier workflow was given; the
\* identifiers given so far are 1..next_id
uuid4 ==
    next_id + 1

\* OrchestratorAgentExecutor._handle_start_incident_workflow: the skill
\* start_incident_workflow, which fills the missing fields with defaults
StartIncidentWorkflow(failure_data) ==
    /\ ~shutdown
    /\ next_id + 1 \in WorkflowIds
    /\ IF failure_data = empty_payload
       THEN /\ Commit(Reply(Cur, "a2a", failure_data, "ValueError"))
            /\ UNCHANGED next_id
       ELSE /\ next_id' = next_id + 1
            /\ Commit(Reply(_start_incident_workflow(Cur, uuid4), "a2a", failure_data, "started"))
    /\ UNCHANGED <<config, shutdown, requests>>

\* _handle_playwright_webhook: the webhook of the server that initialize() starts
PlaywrightWebhook(payload_data) ==
    /\ ~shutdown
    /\ status = "running"
    /\ next_id + 1 \in WorkflowIds
    /\ IF ~_validate_failure_payload(payload_data)
       THEN /\ Commit(Reply(Cur, "webhook", payload_data, "400 Invalid payload"))
            /\ UNCHANGED next_id
       ELSE /\ next_id' = next_id + 1
            /\ Commit(Reply(_start_incident_workflow(Cur, uuid4), "webhook", payload_data, "success"))
    /\ UNCHANGED <<config, shutdown, requests>>

\* variant of CallSucceeds that applies the mock payload of the stage instead of the response
CallSucceeds_Substitutes(w, skill, response) ==
    /\ ~shutdown
    /\ in_flight[w][skill] > 0
    /\ LET s == [Cur EXCEPT !.in_flight[w][skill] = @ - 1] IN
       CASE skill = "analyze_failure" -> Commit(_handle_analysis_complete(s, w, mock_analysis))
         [] skill = "propose_remediation" -> Commit(_handle_remediation_proposed(s, w, mock_remediation(None)))
         [] skill = "request_approval" -> Commit(_handle_approval_received(s, w, mock_approval))
         [] skill = "execute_remediation" -> Commit(_handle_execution_complete(s, w, mock_execution))
    /\ UNCHANGED <<config, next_id, shutdown, requests>>

\* the awaited client.invoke of workflow w returned a response
CallSucceeds(w, skill, response) ==
    /\ ~shutdown
    /\ in_flight[w][skill] > 0
    /\ LET s == [Cur EXCEPT !.in_flight[w][skill] = @ - 1] IN
       CASE skill = "analyze_failure" -> Commit(_handle_analysis_complete(s, w, response))
         [] skill = "propose_remediation" -> Commit(_handle_remediation_proposed(s, w, response))
         [] skill = "request_approval" -> Commit(_handle_approval_received(s, w, response))
         [] skill = "execute_remediation" -> Commit(_handle_execution_complete(s, w, response))
    /\ UNCHANGED <<config, next_id, shutdown, requests>>

MockFallbackEvent(skill) ==
    CASE skill = "analyze_failure" -> "rca_a2a_failed_mock_fallback"
      [] skill = "propose_remediation" -> "remediation_a2a_failed_mock_fallback:propose"
      [] skill = "request_approval" -> "approval_a2a_failed_mock_fallback"
      [] skill = "execute_remediation" -> "remediation_a2a_failed_mock_fallback:execute"

\* variant of CallFails in which the caller fails the workflow instead of
\* falling back to its mock
CallFails_NoFallback(w, skill) ==
    /\ ~shutdown
    /\ in_flight[w][skill] > 0
    /\ LET s0 == [Cur EXCEPT !.in_flight[w][skill] = @ - 1]
           s1 == _log_mcp_event(s0, "a2a_call_failed", w)
           s == _log_mcp_event(s1, MockFallbackEvent(skill), w)
       IN  Commit(_fail_workflow(s, w, "collaborator unavailable"))
    /\ UNCHANGED <<config, next_id, shutdown, requests>>

\* _a2a_call logs a2a_call_failed and raises, the caller falls back to its mock
_a2a_call_failed(s0, w, skill) ==
    LET s1 == _log_mcp_event(s0, "a2a_call_failed", w)
        s == _log_mcp_event(s1, MockFallbackEvent(skill), w)
    IN
    CASE skill = "analyze_failure" -> _handle_analysis_complete(s, w, mock_analysis)
      [] skill = "propose_remediation" ->
           _handle_remediation_proposed(s, w,
               mock_remediation(IF w \in DOMAIN s.active_workflows
                                THEN s.active_workflows[w].analysis_result ELSE None))
      [] skill = "request_approval" -> _handle_approval_received(s, w, mock_approval)
      [] skill = "execute_remediation" -> _handle_execution_complete(s, w, mock_execution)

\* the awaited client.invoke of workflow w timed out (asyncio.wait_for) or raised
CallFails(w, skill) ==
    /\ ~shutdown
    /\ in_flight[w][skill] > 0
    /\ Commit(_a2a_call_failed([Cur EXCEPT !.in_flight[w][skill] = @ - 1], w, skill))
    /\ UNCHANGED <<config, next_id, shutdown, requests>>

\* CallFails by the timeout, with the request that was given up kept in late:
\* asyncio.wait_for cancelled the awaited client.invoke of workflow w, and the
\* collaborator may still answer the request
CallTimesOut(w, skill) ==
    /\ ~shutdown
    /\ in_flight[w][skill] > 0
    /\ Commit(_a2a_call_failed(
           [Cur EXCEPT !.in_flight[w][skill] = @ - 1,
                       !.late = (@ \ {<<w, skill, "dropped">>}) \cup {<<w, skill, "pending">>}],
           w, skill))
    /\ UNCHANGED <<config, next_id, shutdown, requests>>

\* variant of LateResponse in which the late response reaches the handler
LateResponse_Applied(w, skill, response) ==
    /\ ~shutdown
    /\ <<w, skill, "pending">> \in late
    /\ LET s == [Cur EXCEPT !.late = (@ \ {<<w, skill, "pending">>}) \cup {<<w, skill, "dropped">>}] IN
       CASE skill = "analyze_failure" -> Commit(_handle_analysis_complete(s, w, response))
         [] skill = "propose_remediation" -> Commit(_handle_remediation_proposed(s, w, response))
         [] skill = "request_approval" -> Commit(_handle_approval_received(s, w, response))
         [] skill = "execute_remediation" -> Commit(_handle_execution_complete(s, w, response))
    /\ UNCHANGED <<config, next_id, shutdown, requests>>

\* the collaborator answers a call that was given up at its timeout: the task
\* that awaited the answer was cancelled, so the answer reaches no handler
LateResponse(w, skill, response) ==
    /\ ~shutdown
    /\ <<w, skill, "pending">> \in late
    /\ Commit([Cur EXCEPT !.late = (@ \ {<<w, skill, "pending">>}) \cup {<<w, skill, "dropped">>}])
    /\ UNCHANGED <<config, next_id, shutdown, requests>>

UpdateStatuses ==
    {"analysis_complete", "remediation_proposed", "approval_received", "execution_complete", "failed"}

ResultData(update) ==
    CASE update = "analysis_complete" -> Responses("analyze_failure")
      [] update = "remediation_proposed" -> Responses("propose_remediation")
      [] update = "approval_received" -> Responses("request_approval")
      [] update = "execution_complete" -> Responses("execute_remediation")
      [] update = "failed" -> {[error_message |-> "collaborator error"]}

\* OrchestratorAgentExecutor._handle_update_workflow_status
UpdateWorkflowStatus(w, update, result_data) ==
    /\ ~shutdown
    /\ requests < MaxRequests
    /\ requests' = requests + 1
    /\ CASE update = "analysis_complete" -> Commit(_handle_analysis_complete(Cur, w, result_data))
         [] update = "remediation_proposed" -> Commit(_handle_remediation_proposed(Cur, w, result_data))
         [] update = "approval_received" -> Commit(_handle_approval_received(Cur, w, result_data))
         [] update = "execution_complete" -> Commit(_handle_execution_complete(Cur, w, result_data))
         [] update = "failed" ->
              Commit(_fail_workflow(Cur, w, Get(result_data, "error_message", "Unknown error")))
    /\ UNCHANGED <<config, next_id, shutdown>>

\* the requests of the skill cancel_workflow for workflow w: without and with a reason
CancelRequests(w) ==
    {[workflow_id |-> w], [workflow_id |-> w, reason |-> "duplicate incident"]}

\* variant of _handle_cancel_workflow that ignores the reason of the request
CancelWorkflow_DefaultReason(request) ==
    /\ ~shutdown
    /\ requests < MaxRequests
    /\ requests' = requests + 1
    /\ Commit(_fail_workflow(Cur, request.workflow_id, "Cancelled: Cancelled by user"))
    /\ UNCHANGED <<config, next_id, shutdown>>

\* OrchestratorAgentExecutor._handle_cancel_workflow
CancelWorkflow(request) ==
    /\ ~shutdown
    /\ requests < MaxRequests
    /\ requests' = requests + 1
    /\ LET reason == Get(request, "reason", "Cancelled by user") IN
       Commit(_fail_workflow(Cur, request.workflow_id, "Cancelled: " \o reason))
    /\ UNCHANGED <<config, next_id, shutdown>>

Min(S) == CHOOSE x \in S : \A y \in S : x <= y

\* for workflow_id in ids: await self._fail_workflow(workflow_id, error_message)
RECURSIVE FailEach(_, _, _)
FailEach(s, ids, error_message) ==
    IF ids = {} THEN s
    ELSE LET w == Min(ids) IN FailEach(_fail_workflow(s, w, error_message), ids \ {w}, error_message)

\* variant of Stuck that measures the age of a workflow from created_at
Stuck_SinceCreation(s) ==
    {w \in DOMAIN s.active_workflows :
        datetime_now - s.active_workflows[w].created_at > workflow_timeout}

Stuck(s) ==
    {w \in DOMAIN s.active_workflows :
        datetime_now - s.active_workflows[w].updated_at > workflow_timeout}

\* one iteration of the loop of _monitor_workflows (the task initialize() creates)
MonitorWorkflows ==
    /\ ~shutdown
    /\ status = "running"
    /\ Commit(FailEach(Cur, Stuck(Cur), "Workflow timeout"))
    /\ UNCHANGED <<config, next_id, shutdown, requests>>

\* health_check(), once the webhook server exists
HealthCheck ==
    /\ ~shutdown
    /\ status = "running"
    /\ Commit(FailEach(Cur, Stuck(Cur), "Workflow timeout"))
    /\ UNCHANGED <<config, next_id, shutdown, requests>>

\* variant of CleanupCompletedWorkflow in which the task ends without deleting the record
CleanupCompletedWorkflow_KeepsRecord(task) ==
    /\ ~shutdown
    /\ task \in cleanup_tasks
    /\ task.wake_at <= datetime_now
    /\ Commit([Cur EXCEPT !.cleanup_tasks = @ \ {task}])
    /\ UNCHANGED <<config, next_id, shutdown, requests>>

\* a _cleanup_completed_workflow task wakes up from its sleep
CleanupCompletedWorkflow(task) ==
    /\ ~shutdown
    /\ task \in cleanup_tasks
    /\ task.wake_at <= datetime_now
    /\ Commit([Cur EXCEPT
           !.cleanup_tasks = @ \ {task},
           !.active_workflows =
               [w \in DOMAIN @ \ {task.workflow_id} |-> @[w]]])
    /\ UNCHANGED <<config, next_id, shutdown, requests>>

Shift(t, d) == IF t - d < -Horizon THEN -Horizon ELSE t - d

\* the time that passes between two instants the model looks at
TimeSteps == {CLEANUP_DELAY, workflow_timeout}

\* d seconds pass; a sleeping task is woken when its time has come, so time
\* does not pass beyond the wake time of a task that still sleeps
AdvanceTime(d) ==
    /\ ~shutdown
    /\ \A task \in cleanup_tasks : task.wake_at - d >= datetime_now
    /\ Commit([Cur EXCEPT
           !.cleanup_tasks = {[task EXCEPT !.wake_at = @ - d] : task \in @},
           !.active_workflows =
               [w \in DOMAIN @ |-> [@[w] EXCEPT !.created_at = Shift(@, d),
                                                 !.updated_at = Shift(@, d)]]])
    /\ UNCHANGED <<config, next_id, shutdown, requests>>

\* variant of cleanup() that passes over the workflows with a call in flight
Cleanup_SkipBusy ==
    /\ ~shutdown
    /\ shutdown' = TRUE
    /\ Commit(_log_mcp_event(
           FailEach(Cur, {w \in DOMAIN active_workflows :
                             \A skill \in Skills : in_flight[w][skill] = 0},
                    "System shutdown"),
           "orchestrator_shutdown", 0))
    /\ UNCHANGED <<config, next_id, requests>>

\* cleanup(): the shutdown pass
Cleanup ==
    /\ ~shutdown
    /\ shutdown' = TRUE
    /\ Commit(_log_mcp_event(
           FailEach(Cur, DOMAIN active_workflows, "System shutdown"),
           "orchestrator_shutdown", 0))
    /\ UNCHANGED <<config, next_id, requests>>

Next ==
    \/ \E clients \in ClientConfigs : Initialize(clients)
    \/ /\ next_id < MaxWorkflows
       /\ \E failure_data \in FailurePayloads : StartIncidentWorkflow(failure_data)
    \/ /\ next_id < MaxWorkflows
       /\ \E payload_data \in FailurePayloads : PlaywrightWebhook(payload_data)
    \/ \E w \in WorkflowIds, skill \in Skills :
          \/ \E response \in Responses(skill) : CallSucceeds(w, skill, response)
          \/ CallFails(w, skill)
    \/ \E w \in WorkflowIds, update \in UpdateStatuses :
          \E result_data \in ResultData(update) : UpdateWorkflowStatus(w, update, result_data)
    \/ \E w \in WorkflowIds : \E request \in CancelRequests(w) : CancelWorkflow(request)
    \/ MonitorWorkflows
    \/ HealthCheck
    \/ \E task \in cleanup_tasks : CleanupCompletedWorkflow(task)
    \/ \E d \in TimeSteps : AdvanceTime(d)
    \/ Cleanup

Spec == Init /\ [][Next]_vars

\* Fairness: the event loop runs every coroutine that is ready, asyncio.wait_for
\* ends every call by its result or by its timeout, the monitor loop and the
\* sleeping cleanup tasks are woken, and time passes.
Fairness ==
    /\ \A w \in WorkflowIds, skill \in Skills :
           WF_vars(CallFails(w, skill) \/ \E response \in Responses(skill) : CallSucceeds(w, skill, response))
    /\ WF_vars(MonitorWorkflows)
    /\ WF_vars(\E task \in cleanup_tasks : CleanupCompletedWorkflow(task))
    /\ WF_vars(\E d \in TimeSteps : AdvanceTime(d))

\* the requests of the skill interface that arrive in a behaviour of LiveSpec
MaxLiveRequests == 1

LiveNext ==
    \/ \E clients \in ClientConfigs : Initialize(clients)
    \/ /\ next_id < MaxWorkflows
       /\ \E failure_data \in FailurePayloads : StartIncidentWorkflow(failure_data)
    \/ /\ next_id < MaxWorkflows
       /\ \E payload_data \in FailurePayloads : PlaywrightWebhook(payload_data)
    \/ \E w \in WorkflowIds, skill \in Skills :
          \/ \E response \in Responses(skill) : CallSucceeds(w, skill, response)
          \/ CallFails(w, skill)
    \/ /\ requests < MaxLiveRequests
       /\ \E w \in WorkflowIds, update \in UpdateStatuses :
             \E result_data \in ResultData(update) : UpdateWorkflowStatus(w, update, result_data)
    \/ /\ requests < MaxLiveRequests
       /\ \E w \in WorkflowIds : \E request \in CancelRequests(w) : CancelWorkflow(request)
    \/ MonitorWorkflows
    \/ HealthCheck
    \/ \E task \in cleanup_tasks : CleanupCompletedWorkflow(task)
    \/ \E d \in TimeSteps : AdvanceTime(d)
    \/ Cleanup

LiveSpec == Init /\ [][LiveNext]_vars /\ Fairness

\* The behaviours in which the requests given up at a timeout are followed up:
\* failure notifications, calls that return, fail or time out, late answers,
\* the monitor, the cleanup tasks, time and the shutdown.
TimeoutNext ==
    \/ \E clients \in ClientConfigs : Initialize(clients)
    \/ /\ next_id < MaxWorkflows
       /\ StartIncidentWorkflow(valid_payload)
    \/ \E w \in WorkflowIds, skill \in Skills :
          \/ \E response \in Responses(skill) : CallSucceeds(w, skill, response)
          \/ CallFails(w, skill)
          \/ CallTimesOut(w, skill)
          \/ \E response \in Responses(skill) : LateResponse(w, skill, response)
    \/ MonitorWorkflows
    \/ \E task \in cleanup_tasks : CleanupCompletedWorkflow(task)
    \/ \E d \in TimeSteps : AdvanceTime(d)
    \/ Cleanup

TimeoutSpec == Init /\ [][TimeoutNext]_vars

\* the writes of the audit log start to fail, or work again
MCPSinkChanges ==
    /\ ~shutdown
    /\ Commit([Cur EXCEPT !.audit.ok = ~@])
    /\ UNCHANGED <<config, next_id, shutdown, requests>>

\* The behaviours of a workflow whose audit log may fail at any time.
SinkNext ==
    \/ \E clients \in ClientConfigs : Initialize(clients)
    \/ /\ next_id < MaxWorkflows
       /\ StartIncidentWorkflow(valid_payload)
    \/ \E w \in WorkflowIds, skill \in Skills :
          \/ \E response \in Responses(skill) : CallSucceeds(w, skill, response)
          \/ CallFails(w, skill)
    \/ MonitorWorkflows
    \/ \E task \in cleanup_tasks : CleanupCompletedWorkflow(task)
    \/ \E d \in TimeSteps : AdvanceTime(d)
    \/ Cleanup
    \/ MCPSinkChanges

SinkSpec == Init /\ [][SinkNext]_vars

\* The behaviours of sibling workflows when every service has a client: failure
\* notifications, calls that return or fail, requests of the skill interface,
\* the cleanup tasks and the time they sleep.
PairNext ==
    \/ Initialize(Services)
    \/ /\ next_id < MaxSiblings
       /\ StartIncidentWorkflow(valid_payload)
    \/ \E w \in WorkflowIds, skill \in Skills :
          \/ \E response \in Responses(skill) : CallSucceeds(w, skill, response)
          \/ CallFails(w, skill)
    \/ /\ requests < MaxPairRequests
       /\ \E w \in WorkflowIds, update \in UpdateStatuses :
             \E result_data \in ResultData(update) : UpdateWorkflowStatus(w, update, result_data)
    \/ /\ requests < MaxPairRequests
       /\ \E w \in WorkflowIds : \E request \in CancelRequests(w) : CancelWorkflow(request)
    \/ \E task \in cleanup_tasks : CleanupCompletedWorkflow(task)
    \/ /\ cleanup_tasks # {}
       /\ AdvanceTime(CLEANUP_DELAY)

PairSpec == Init /\ [][PairNext]_vars

\* ---- the approval agent (src/agents/approval_agent.py) --------------------
\* The agent runs on its own event loop.  request_approval stores the request
\* before its first suspension; handle_approval_decision and cancel_request
\* test and assign the status without a suspension in between; the sweep of
\* _monitor_expired_requests collects the expired ids without a suspension and
\* is then suspended (audit log, callback) while it handles each of them.  The
\* callback of a request follows the assignment of its status unconditionally,
\* so both are one step of the model.
ApprovalStatus == {"pending", "approved", "rejected", "expired", "cancelled"}

Priorities == {"MEDIUM", "CRITICAL"}

ApprovalRequest(expires_at) ==
    [status |-> "pending", expires_at |-> expires_at,
     approved_by |-> NoMessage, rejection_reason |-> NoMessage]

\* SignatureManager: the HMAC of the canonical form of the data
generate_signature(data) == [hmac |-> data]

verify_signature(data, signature) == signature = generate_signature(data)

signature_data(request_id, decision, user_id) ==
    [request_id |-> request_id, decision |-> decision, user_id |-> user_id]

\* the decisions the dashboard delivers: signed, signed for the other decision,
\* and without a signature
DecisionData ==
    {[request_id |-> r, decision |-> d, user_id |-> "alice",
      signature |-> generate_signature(signature_data(r, signed, "alice"))] :
        r \in RequestIds, d \in {"approve", "reject"}, signed \in {"approve", "reject"}}
    \cup {[request_id |-> r, decision |-> "approve", user_id |-> "alice"] : r \in RequestIds}

\* await callback(decision), if a callback is registered for the request
InvokeCallback(request_id) ==
    IF request_id \in approval_callbacks
    THEN [callback_calls EXCEPT ![request_id] = @ + 1]
    ELSE callback_calls

\* request_approval: the request is stored as pending with its expiry time
request_approval(priority, callback) ==
    LET request_id == Cardinality(DOMAIN active_requests) + 1
        timeout == IF priority = "CRITICAL" THEN critical_timeout ELSE default_timeout
    IN  /\ request_id \in RequestIds
        /\ active_requests' = (request_id :> ApprovalRequest(approval_now + timeout)) @@ active_requests
        /\ approval_callbacks' = IF callback THEN approval_callbacks \cup {request_id}
                                 ELSE approval_callbacks
        /\ returned' = [op |-> "request_approval", request_id |-> request_id, result |-> TRUE]
        /\ UNCHANGED <<orchestrator_vars, approval_now, auto_reject_expired,
                       expired_requests, callback_calls>>

\* variant of handle_approval_decision without the test of expires_at
handle_approval_decision_NoExpiry(decision_data) ==
    LET request_id == decision_data.request_id
        decision == decision_data.decision
        refused == [op |-> "handle_approval_decision", request_id |-> request_id, result |-> FALSE]
    IN  IF \/ Get(decision_data, "signature", None) = None
           \/ request_id \notin DOMAIN active_requests
           \/ ~verify_signature(signature_data(request_id, decision, decision_data.user_id),
                                decision_data.signature)
           \/ active_requests[request_id].status # "pending"
        THEN /\ returned' = refused
             /\ UNCHANGED <<orchestrator_vars, approval_now, active_requests, approval_callbacks,
                            auto_reject_expired, expired_requests, callback_calls>>
        ELSE /\ active_requests' =
                    IF decision = "approve"
                    THEN [active_requests EXCEPT ![request_id].status = "approved",
                                                 ![request_id].approved_by = Get(decision_data, "user_name", "Unknown User")]
                    ELSE [active_requests EXCEPT ![request_id].status = "rejected",
                                                 ![request_id].rejection_reason = Get(decision_data, "reason", NoMessage)]
             /\ callback_calls' = InvokeCallback(request_id)
             /\ returned' = [refused EXCEPT !.result = TRUE]
             /\ UNCHANGED <<orchestrator_vars, approval_now, approval_callbacks,
                            auto_reject_expired, expired_requests>>

\* handle_approval_decision
handle_approval_decision(decision_data) ==
    LET request_id == decision_data.request_id
        decision == decision_data.decision
        refused == [op |-> "handle_approval_decision", request_id |-> request_id, result |-> FALSE]
    IN  IF \/ Get(decision_data, "signature", None) = None
           \/ request_id \notin DOMAIN active_requests
           \/ ~verify_signature(signature_data(request_id, decision, decision_data.user_id),
                                decision_data.signature)
           \/ active_requests[request_id].status # "pending"
        THEN /\ returned' = refused
             /\ UNCHANGED <<orchestrator_vars, approval_now, active_requests, approval_callbacks,
                            auto_reject_expired, expired_requests, callback_calls>>
        ELSE IF approval_now > active_requests[request_id].expires_at
        THEN /\ active_requests' = [active_requests EXCEPT ![request_id].status = "expired"]
             /\ returned' = refused
             /\ UNCHANGED <<orchestrator_vars, approval_now, approval_callbacks,
                            auto_reject_expired, expired_requests, callback_calls>>
        ELSE /\ active_requests' =
                    IF decision = "approve"
                    THEN [active_requests EXCEPT ![request_id].status = "approved",
                                                 ![request_id].approved_by = Get(decision_data, "user_name", "Unknown User")]
                    ELSE [active_requests EXCEPT ![request_id].status = "rejected",
                                                 ![request_id].rejection_reason = Get(decision_data, "reason", NoMessage)]
             /\ callback_calls' = InvokeCallback(request_id)
             /\ returned' = [refused EXCEPT !.result = TRUE]
             /\ UNCHANGED <<orchestrator_vars, approval_now, approval_callbacks,
                            auto_reject_expired, expired_requests>>

\* cancel_request
cancel_request(request_id) ==
    LET refused == [op |-> "cancel_request", request_id |-> request_id, result |-> FALSE] IN
    IF request_id \notin DOMAIN active_requests \/ active_requests[request_id].status # "pending"
    THEN /\ returned' = refused
         /\ UNCHANGED <<orchestrator_vars, approval_now, active_requests, approval_callbacks,
                        auto_reject_expired, expired_requests, callback_calls>>
    ELSE /\ active_requests' = [active_requests EXCEPT ![request_id].status = "cancelled",
                                                       ![request_id].rejection_reason = "Cancelled by system"]
         /\ returned' = [refused EXCEPT !.result = TRUE]
         /\ UNCHANGED <<orchestrator_vars, approval_now, approval_callbacks,
                        auto_reject_expired, expired_requests, callback_calls>>

\* the ids of a set in the order of active_requests.items(), the order of creation
RECURSIVE InOrder(_)
InOrder(ids) ==
    IF ids = {} THEN <<>> ELSE <<Min(ids)>> \o InOrder(ids \ {Min(ids)})

\* the body of the loop over expired_requests for one id: the status is assigned
\* without a look at the status the request has by now
HandleExpired(ids) ==
    LET request_id == Head(ids) IN
    /\ active_requests' = [active_requests EXCEPT ![request_id].status = "expired",
                                                  ![request_id].rejection_reason = "Request expired"]
    /\ callback_calls' = InvokeCallback(request_id)
    /\ expired_requests' = Tail(ids)
    /\ returned' = [op |-> "_monitor_expired_requests", request_id |-> request_id, result |-> TRUE]

\* _monitor_expired_requests wakes up: it collects the pending requests past
\* their expires_at and handles the first of them
MonitorExpiredRequests ==
    LET ids == InOrder({r \in DOMAIN active_requests :
                           /\ active_requests[r].status = "pending"
                           /\ approval_now > active_requests[r].expires_at})
    IN  /\ expired_requests = <<>>
        /\ IF auto_reject_expired /\ ids # <<>>
           THEN HandleExpired(ids)
           ELSE /\ returned' = [op |-> "_monitor_expired_requests", request_id |-> 0, result |-> TRUE]
                /\ UNCHANGED <<active_requests, callback_calls, expired_requests>>
        /\ UNCHANGED <<orchestrator_vars, approval_now, approval_callbacks, auto_reject_expired>>

\* the sweep goes on with the next id of its list
MonitorHandlesNext ==
    /\ expired_requests # <<>>
    /\ HandleExpired(expired_requests)
    /\ UNCHANGED <<orchestrator_vars, approval_now, approval_callbacks, auto_reject_expired>>

\* critical_timeout minutes pass
AdvanceApprovalTime ==
    /\ approval_now + critical_timeout <= MaxApprovalClock
    /\ approval_now' = approval_now + critical_timeout
    /\ returned' = NoReturn
    /\ UNCHANGED <<orchestrator_vars, active_requests, approval_callbacks, auto_reject_expired,
                   expired_requests, callback_calls>>

ApprovalInit ==
    /\ OrchestratorInit
    /\ ApprovalAgentInit
    /\ auto_reject_expired \in BOOLEAN

ApprovalNext ==
    \/ \E priority \in Priorities, callback \in BOOLEAN : request_approval(priority, callback)
    \/ \E decision_data \in DecisionData : handle_approval_decision(decision_data)
    \/ \E request_id \in RequestIds : cancel_request(request_id)
    \/ MonitorExpiredRequests
    \/ MonitorHandlesNext
    \/ AdvanceApprovalTime

ApprovalSpec == ApprovalInit /\ [][ApprovalNext]_vars

\* ---- helpers of the properties ---------------------------------------------
Edges ==
    {<<"started", "analyzing">>, <<"analyzing", "proposing">>, <<"analyzing", "completed">>,
     <<"proposing", "awaiting_approval">>, <<"awaiting_approval", "executing">>,
     <<"awaiting_approval", "completed">>, <<"executing", "completed">>}

PayloadFields == {"analysis_result", "remediation_action", "approval_response", "execution_result"}

Stored == DOMAIN active_workflows

InFlight(w) ==
    in_flight[w]["analyze_failure"] + in_flight[w]["propose_remediation"]
    + in_flight[w]["request_approval"] + in_flight[w]["execute_remediation"]

Age(w) == datetime_now - active_workflows[w].updated_at

TimePasses == \E d \in TimeSteps : AdvanceTime(d)

\* C1: every stage assignment an operation makes either leaves the stage as it
\* is, follows one of the edges of the state machine, or has the target Failed.
C1_MonotonicStages ==
    \A i \in DOMAIN transitions :
        \/ transitions[i][2] = transitions[i][3]
        \/ <<transitions[i][2], transitions[i][3]>> \in Edges
        \/ transitions[i][3] = "failed"

\* C2: a workflow that is Completed or Failed and stays in the store keeps its
\* stage, error_message, updated_at and its four payloads in every step.
C2_TerminalImmutable ==
    [][\/ TimePasses
       \/ \A w \in Stored :
            (active_workflows[w].status \in Terminal /\ w \in DOMAIN active_workflows')
                => active_workflows'[w] = active_workflows[w]]_vars

\* C3: at most one collaborator call of a workflow is in flight at any time.
C3_SequentialCalls == \A w \in WorkflowIds : InFlight(w) <= 1

\* C6: a payload field of a stored workflow that has been set keeps its value.
C6_WriteOnce ==
    [][\A w \in Stored : \A f \in PayloadFields :
         (active_workflows[w][f] # None /\ w \in DOMAIN active_workflows')
             => active_workflows'[w][f] = active_workflows[w][f]]_vars

StageField(skill) ==
    CASE skill = "analyze_failure" -> "analysis_result"
      [] skill = "propose_remediation" -> "remediation_action"
      [] skill = "request_approval" -> "approval_response"
      [] skill = "execute_remediation" -> "execution_result"

\* the stage a workflow enters when the result of the skill has been applied
StageAfter(skill) ==
    CASE skill = "analyze_failure" -> "proposing"
      [] skill = "propose_remediation" -> "awaiting_approval"
      [] skill = "request_approval" -> "executing"
      [] skill = "execute_remediation" -> "completed"

DefaultPayload(w, skill) ==
    CASE skill = "analyze_failure" -> mock_analysis
      [] skill = "propose_remediation" -> mock_remediation(active_workflows[w].analysis_result)
      [] skill = "request_approval" -> mock_approval
      [] skill = "execute_remediation" -> mock_execution

AgentsOf(skill) ==
    CASE skill = "analyze_failure" -> rca_agents
      [] skill = "propose_remediation" -> remediation_agents
      [] skill = "request_approval" -> approval_agents
      [] skill = "execute_remediation" -> remediation_agents

FallbackEvents(w, skill) == {i \in DOMAIN audit : audit[i] = <<MockFallbackEvent(skill), w>>}

\* the last operation was the end of a call of the skill for w as unavailable
CallUnavailable(w, skill) ==
    /\ Len(audit) >= 2
    /\ audit[1] = <<"a2a_call_failed", w>>
    /\ audit[2] = <<MockFallbackEvent(skill), w>>

FallbackApplied(w, skill) ==
    /\ active_workflows[w][StageField(skill)] = DefaultPayload(w, skill)
    /\ active_workflows[w].status # "failed"
    /\ transitions # <<>>
    /\ transitions[1][3] = StageAfter(skill)
    /\ Cardinality(FallbackEvents(w, skill)) = 1

NeedEvent(skill) ==
    CASE skill = "analyze_failure" -> "workflow_started"
      [] skill = "propose_remediation" -> "analysis_complete"
      [] skill = "request_approval" -> "remediation_proposed"
      [] skill = "execute_remediation" -> "approval_received"

Needs(w, skill) ==
    /\ \E i \in DOMAIN audit : audit[i] = <<NeedEvent(skill), w>>
    /\ skill = "execute_remediation" =>
           Get(active_workflows[w].approval_response, "decision", None) = "approve"

NoCollaboratorReasons ==
    {"No RCA agents available", "No remediation agents available", "No approval agents available"}

\* C5: when the last operation brought a workflow to a stage whose collaborator
\* has no discovered agent or no client, the workflow is Failed with a
\* no-collaborator reason, the default payload of the stage is not applied and
\* no fallback audit event is emitted for the stage.
C5_NoCollaboratorFatal ==
    \A w \in Stored, skill \in Skills :
        (Needs(w, skill) /\ (AgentsOf(skill) = {} \/ ServiceOf(skill) \notin a2a_clients)) =>
            /\ active_workflows[w].status = "failed"
            /\ active_workflows[w].error_message \in NoCollaboratorReasons
            /\ active_workflows[w][StageField(skill)] # DefaultPayload(w, skill)
            /\ FallbackEvents(w, skill) = {}

\* C7: a step of the monitor loop puts every stored workflow whose updated_at is
\* older than workflow_timeout into failed with the reason "Workflow timeout",
\* and leaves every stored workflow that is not older exactly as it was.
C7_TimeoutSweep ==
    [][MonitorWorkflows =>
         \A w \in Stored :
             /\ w \in DOMAIN active_workflows'
             /\ IF datetime_now - active_workflows[w].updated_at > workflow_timeout
                THEN /\ active_workflows'[w].status = "failed"
                     /\ active_workflows'[w].error_message = "Workflow timeout"
                ELSE active_workflows'[w] = active_workflows[w]]_vars

C7_Witness ==
    /\ 1 \in Stored
    /\ transitions # <<>>
    /\ transitions[1][2] \in NonTerminal
    /\ audit = << <<"workflow_failed", 1>> >>
    /\ active_workflows[1].error_message = "Workflow timeout"

\* C8: no terminal workflow older than the retention window (CLEANUP_DELAY past
\* its last terminal transition, which is its updated_at) is in the store, and
\* no step removes from the store a terminal workflow younger than the window,
\* also when the workflow made more than one terminal transition.
C8_Retention ==
    /\ [](\A w \in Stored : active_workflows[w].status \in Terminal => Age(w) <= CLEANUP_DELAY)
    /\ [][\A w \in Stored :
             (active_workflows[w].status \in Terminal /\ Age(w) < CLEANUP_DELAY)
                 => w \in DOMAIN active_workflows']_vars

\* C9: the shutdown pass puts every stored workflow that is in a non-terminal
\* stage into failed with the reason "System shutdown", a call in flight or
\* not, and after the pass no stored workflow is in a non-terminal stage.
C9_ShutdownPass ==
    /\ [](shutdown => \A w \in Stored : active_workflows[w].status \in Terminal)
    /\ [][(~shutdown /\ shutdown') =>
            \A w \in Stored :
                /\ w \in DOMAIN active_workflows'
                /\ active_workflows[w].status \in NonTerminal =>
                       /\ active_workflows'[w].status = "failed"
                       /\ active_workflows'[w].error_message = "System shutdown"]_vars

C9_Witness ==
    /\ shutdown
    /\ 1 \in Stored
    /\ InFlight(1) > 0
    /\ transitions # <<>>
    /\ transitions[1][2] \in NonTerminal
    /\ active_workflows[1].status = "failed"
    /\ active_workflows[1].error_message = "System shutdown"

\* C10: under Fairness every created workflow reaches completed or failed, and
\* no workflow stays for ever in a non-terminal stage, whichever clients exist.
C10_EventuallyTerminal ==
    \A w \in 1..MaxWorkflows :
        /\ (audit # <<>> /\ audit[1] = <<"workflow_started", w>>)
               ~> (w \in Stored /\ active_workflows[w].status \in Terminal)
        /\ (w \in Stored /\ active_workflows[w].status \in NonTerminal)
               ~> (w \notin Stored \/ active_workflows[w].status \in Terminal)

C10_Witness ==
    /\ a2a_clients # {}
    /\ a2a_clients # Services
    /\ 1 \in Stored
    /\ active_workflows[1].status = "completed"
    /\ active_workflows[1].execution_result \in {mock_execution, execution_response}
    /\ audit # <<>>
    /\ audit[1] = <<"a2a_call_failed", 1>>

\* C11: a cancel request for a stored workflow in a non-terminal stage puts it
\* into failed and records the reason of the request (the default reason when
\* the request has none), after the prefix "Cancelled: ", in error_message.
C11_CancelFails ==
    [][\A w \in Stored : \A request \in CancelRequests(w) :
          (CancelWorkflow(request) /\ active_workflows[w].status \in NonTerminal) =>
              /\ w \in DOMAIN active_workflows'
              /\ active_workflows'[w].status = "failed"
              /\ active_workflows'[w].error_message
                     = "Cancelled: " \o Get(request, "reason", "Cancelled by user")]_vars

C11_Witness ==
    /\ 1 \in Stored
    /\ transitions # <<>>
    /\ transitions[1][2] \in NonTerminal
    /\ active_workflows[1].status = "failed"
    /\ active_workflows[1].error_message = "Cancelled: duplicate incident"

\* C12: error_message is set only in stage failed: no stored workflow in another
\* stage has an error_message.
C12_ErrorOnlyWhenFailed ==
    \A w \in Stored :
        active_workflows[w].error_message # NoMessage => active_workflows[w].status = "failed"

ValidationErrors == {"400 Invalid payload", "ValueError"}

\* C14: a failure notification that lacks a required field, or whose error is
\* no dict, is answered with a validation error on every path that starts a
\* workflow; it creates no workflow record and no call is issued.
C14_InvalidRejected ==
    [][(ingress' # <<>> /\ ~_validate_failure_payload(ingress'[2])) =>
          /\ ingress'[3] \in ValidationErrors
          /\ active_workflows' = active_workflows
          /\ issued' = <<>>]_vars

\* the last operation applied an analysis result to workflow w in stage analyzing
AnalysisApplied(w) ==
    /\ w \in Stored
    /\ audit # <<>>
    /\ audit[1] = <<"analysis_complete", w>>
    /\ transitions # <<>>
    /\ transitions[1][2] = "analyzing"

IssuedFor(w, skills) == {i \in DOMAIN issued : issued[i][1] = w /\ issued[i][2] \in skills}

\* C15: an analysis result with the classification that asks for no action,
\* applied to a workflow in analyzing, completes the workflow and no propose,
\* approve or execute call is issued; any other classification moves it to
\* proposing.
C15_NoActionCompletes ==
    \A w \in WorkflowIds :
        AnalysisApplied(w) =>
            IF active_workflows[w].analysis_result.classification = no_action_response.classification
            THEN /\ active_workflows[w].status = "completed"
                 /\ IssuedFor(w, Skills \ {"analyze_failure"}) = {}
            ELSE transitions[1] = <<w, "analyzing", "proposing">>

Entered(w, stage) == {i \in DOMAIN transitions : transitions[i][1] = w /\ transitions[i][3] = stage}

\* C16: when the analysis call of a workflow in analyzing ends as unavailable,
\* the fallback applied is an analysis that asks for no action and the workflow
\* is completed, with a fallback audit event, without entering
\* awaiting_approval or executing.
C16_AnalysisFallbackCompletes ==
    \A w \in Stored :
        (/\ CallUnavailable(w, "analyze_failure")
         /\ transitions # <<>>
         /\ transitions[1][2] = "analyzing") =>
            /\ active_workflows[w].analysis_result.classification = no_action_response.classification
            /\ active_workflows[w].status = "completed"
            /\ FallbackEvents(w, "analyze_failure") # {}
            /\ Entered(w, "awaiting_approval") = {}
            /\ Entered(w, "executing") = {}

Decision(w) == Get(active_workflows[w].approval_response, "decision", NoMessage)

\* C17: an approval decision other than 'approve', applied to a workflow in
\* awaiting_approval, completes the workflow with a result marked rejected; the
\* workflow does not enter executing and no execute call is issued.
C17_RejectCompletes ==
    \A w \in Stored :
        (/\ audit # <<>>
         /\ audit[1] = <<"approval_received", w>>
         /\ transitions # <<>>
         /\ transitions[1][2] = "awaiting_approval"
         /\ Decision(w) # "approve") =>
            /\ active_workflows[w].status = "completed"
            /\ Get(active_workflows[w].execution_result, "status", NoMessage) = "rejected"
            /\ Entered(w, "executing") = {}
            /\ IssuedFor(w, {"execute_remediation"}) = {}

C17_Witness ==
    /\ 1 \in Stored
    /\ audit # <<>>
    /\ audit[1] = <<"approval_received", 1>>
    /\ transitions = << <<1, "awaiting_approval", "completed">> >>
    /\ active_workflows[1].approval_response = reject_response
    /\ active_workflows[1].execution_result = rejected_result

\* C18: whenever an execute call is issued for a workflow, and whenever a
\* workflow enters executing, the approval_response of its record has the
\* decision 'approve'.
C18_ApprovalGate ==
    \A w \in WorkflowIds :
        (IssuedFor(w, {"execute_remediation"}) # {} \/ Entered(w, "executing") # {}) =>
            /\ w \in Stored
            /\ Decision(w) = "approve"

C18_Witness ==
    /\ 1 \in Stored
    /\ IssuedFor(1, {"execute_remediation"}) # {}
    /\ Entered(1, "executing") # {}
    /\ active_workflows[1].status = "executing"
    /\ active_workflows[1].approval_response = approve_response

\* C19: a record is removed from the store only in a terminal stage, and a
\* failed workflow stays failed, with its reason, for as long as it is stored.
C19_EvictOnlyTerminal ==
    /\ [][\A w \in Stored :
             w \notin DOMAIN active_workflows' => active_workflows[w].status \in Terminal]_vars
    /\ [][\A w \in Stored :
             (active_workflows[w].status = "failed" /\ w \in DOMAIN active_workflows') =>
                 /\ active_workflows'[w].status = "failed"
                 /\ active_workflows'[w].error_message # NoMessage]_vars

OperationOn(a) ==
    \/ next_id + 1 = a /\ \E failure_data \in FailurePayloads :
          StartIncidentWorkflow(failure_data) \/ PlaywrightWebhook(failure_data)
    \/ \E skill \in Skills :
          \/ \E response \in Responses(skill) : CallSucceeds(a, skill, response)
          \/ CallFails(a, skill)
    \/ \E update \in UpdateStatuses : \E result_data \in ResultData(update) :
          UpdateWorkflowStatus(a, update, result_data)
    \/ \E request \in CancelRequests(a) : CancelWorkflow(request)
    \/ \E task \in cleanup_tasks : task.workflow_id = a /\ CleanupCompletedWorkflow(task)

Untouched(b) ==
    /\ b \in Stored =>
          /\ b \in DOMAIN active_workflows'
          /\ active_workflows'[b].status = active_workflows[b].status
          /\ active_workflows'[b].error_message = active_workflows[b].error_message
          /\ \A f \in PayloadFields : active_workflows'[b][f] = active_workflows[b][f]
    /\ b \notin Stored => b \notin DOMAIN active_workflows'
    /\ in_flight'[b] = in_flight[b]

\* C13: an operation on workflow a leaves the stage, the payload fields, the
\* error_message and the calls of every other workflow b as they were.
C13_Isolation ==
    [][\A a \in WorkflowIds :
          OperationOn(a) => \A b \in WorkflowIds \ {a} : Untouched(b)]_vars

C13_Witness ==
    /\ Stored = {1, 2}
    /\ transitions # <<>>
    /\ \A i \in DOMAIN transitions : transitions[i][1] = 2
    /\ active_workflows[2].status = "completed"
    /\ active_workflows[2].analysis_result = rca_response
    /\ active_workflows[1].status = "failed"
    /\ active_workflows[1].analysis_result = None

\* C21: every stored workflow has updated_at >= created_at, after its creation
\* and after every mutation of its record.
C21_UpdatedNotBeforeCreated ==
    \A w \in Stored : active_workflows[w].updated_at >= active_workflows[w].created_at

C21_Witness ==
    /\ 1 \in Stored
    /\ transitions # <<>>
    /\ active_workflows[1].created_at = -CLEANUP_DELAY
    /\ active_workflows[1].updated_at = datetime_now

\* C22: the workflow_id values of all workflows ever created are pairwise
\* distinct: the stored identifiers are among those given so far, and a step
\* that stores a new record stores it under an identifier that no earlier
\* workflow was given, an evicted one included.
C22_DistinctIds ==
    /\ [](Stored \subseteq 1..next_id)
    /\ [][\A w \in WorkflowIds :
             (w \notin DOMAIN active_workflows /\ w \in DOMAIN active_workflows')
                 => (w > next_id /\ next_id' = w)]_vars

C22_Witness ==
    /\ next_id = 2
    /\ 2 \in Stored
    /\ 1 \notin Stored
    /\ ingress # <<>>

\* the stage in which the call of the skill is made
CallStage(skill) ==
    CASE skill = "analyze_failure" -> "analyzing"
      [] skill = "propose_remediation" -> "proposing"
      [] skill = "request_approval" -> "awaiting_approval"
      [] skill = "execute_remediation" -> "executing"

\* C23: there is no retry: an operation issues at most one call of a skill for
\* each entry of a workflow into the stage of that skill, and the operation that
\* ends a call as unavailable issues no second call of the same skill.
C23_NoRetry ==
    \A w \in WorkflowIds, skill \in Skills :
        /\ Cardinality(IssuedFor(w, {skill})) <= Cardinality(Entered(w, CallStage(skill)))
        /\ CallUnavailable(w, skill) => IssuedFor(w, {skill}) = {}

C23_Witness ==
    /\ CallUnavailable(1, "propose_remediation")
    /\ 1 \in Stored
    /\ active_workflows[1].remediation_action = DefaultPayload(1, "propose_remediation")
    /\ IssuedFor(1, {"request_approval"}) # {}
    /\ in_flight[1]["propose_remediation"] = 0

\* what an operation leaves behind, apart from the audit log
Outcome(s) == [s EXCEPT !.audit = [ok |-> TRUE, events |-> <<>>]]

SinkDown == [Cur EXCEPT !.audit.ok = FALSE]

SinkUp == [Cur EXCEPT !.audit.ok = TRUE]

ApplyResult(s, w, skill, response) ==
    CASE skill = "analyze_failure" -> _handle_analysis_complete(s, w, response)
      [] skill = "propose_remediation" -> _handle_remediation_proposed(s, w, response)
      [] skill = "request_approval" -> _handle_approval_received(s, w, response)
      [] skill = "execute_remediation" -> _handle_execution_complete(s, w, response)

\* C24: a failing write of an audit event is swallowed: in every reachable
\* state, every operation (creation, the application of a stage result, the end
\* of a call as unavailable, a failure, a sweep, the shutdown pass) makes the
\* same stage assignments, writes the same fields, issues the same calls and
\* creates the same tasks when the writes fail as it does when they succeed.
C24_SinkFailureSwallowed ==
    /\ uuid4 \in WorkflowIds =>
          Outcome(_start_incident_workflow(SinkDown, uuid4))
              = Outcome(_start_incident_workflow(SinkUp, uuid4))
    /\ \A w \in WorkflowIds :
          /\ \A skill \in Skills :
                /\ \A response \in Responses(skill) :
                      Outcome(ApplyResult(SinkDown, w, skill, response))
                          = Outcome(ApplyResult(SinkUp, w, skill, response))
                /\ Outcome(_a2a_call_failed(SinkDown, w, skill))
                       = Outcome(_a2a_call_failed(SinkUp, w, skill))
          /\ Outcome(_fail_workflow(SinkDown, w, "Cancelled: Cancelled by user"))
                 = Outcome(_fail_workflow(SinkUp, w, "Cancelled: Cancelled by user"))
    /\ Outcome(FailEach(SinkDown, Stuck(SinkDown), "Workflow timeout"))
           = Outcome(FailEach(SinkUp, Stuck(SinkUp), "Workflow timeout"))
    /\ Outcome(_log_mcp_event(FailEach(SinkDown, Stored, "System shutdown"), "orchestrator_shutdown", 0))
           = Outcome(_log_mcp_event(FailEach(SinkUp, Stored, "System shutdown"), "orchestrator_shutdown", 0))

C24_Witness ==
    /\ ~mcp_sink_ok
    /\ 1 \in Stored
    /\ active_workflows[1].status = "awaiting_approval"
    /\ active_workflows[1].remediation_action = remediation_response
    /\ transitions = <<<<1, "proposing", "awaiting_approval">>>>
    /\ issued = <<<<1, "request_approval">>>>
    /\ audit = <<>>

\* C25: once a workflow is Failed, no operation issues a collaborator call for
\* it: not the arrival of the result of a call that was in flight, and not the
\* arrival of a stage-result update.
C25_NoCallAfterFailed ==
    [][\A w \in Stored :
          active_workflows[w].status = "failed" =>
              \A i \in DOMAIN issued' : issued'[i][1] # w]_vars

\* C26: at most one execute call is issued for a workflow over its whole life;
\* so no operation issues two of them, and no workflow ever has two execute
\* calls awaiting their client.
C26_SingleExecute ==
    \A w \in WorkflowIds :
        /\ Cardinality(IssuedFor(w, {"execute_remediation"})) <= 1
        /\ in_flight[w]["execute_remediation"] <= 1

\* C27: a propose call is issued only for a workflow whose analysis_result is
\* set, an approve call only when analysis_result and remediation_action are
\* set, an execute call only when remediation_action and approval_response are
\* set.
C27_CallCarriesResults ==
    \A i \in DOMAIN issued :
        LET w == issued[i][1]
            skill == issued[i][2]
            wf == active_workflows[w]
        IN  /\ skill = "propose_remediation" => wf.analysis_result # None
            /\ skill = "request_approval" =>
                  wf.analysis_result # None /\ wf.remediation_action # None
            /\ skill = "execute_remediation" =>
                  wf.remediation_action # None /\ wf.approval_response # None

\* C28: the shutdown pass changes only the workflows that are still active: a
\* workflow that is Completed keeps Completed and its empty error_message, and a
\* workflow that is Failed keeps its reason.
C28_ShutdownSparesTerminal ==
    [][(~shutdown /\ shutdown') =>
           \A w \in Stored :
               active_workflows[w].status \in Terminal =>
                   /\ w \in DOMAIN active_workflows'
                   /\ active_workflows'[w].status = active_workflows[w].status
                   /\ active_workflows'[w].error_message = active_workflows[w].error_message]_vars

\* C29: with workflow_timeout of 30 minutes and the eviction delay of 5 minutes
\* the timeout sweep never changes a terminal workflow: no stored terminal
\* workflow has an updated_at older than workflow_timeout, and a step of the
\* monitor loop (or of the health check, which makes the same sweep) leaves
\* every stored terminal workflow exactly as it was.
C29_SweepSparesTerminal ==
    /\ [](\A w \in Stored : active_workflows[w].status \in Terminal => w \notin Stuck(Cur))
    /\ [][(MonitorWorkflows \/ HealthCheck) =>
             \A w \in Stored :
                 active_workflows[w].status \in Terminal =>
                     /\ w \in DOMAIN active_workflows'
                     /\ active_workflows'[w] = active_workflows[w]]_vars

C29_Witness ==
    /\ status = "running"
    /\ 1 \in Stored
    /\ active_workflows[1].status = "completed"
    /\ Age(1) = CLEANUP_DELAY
    /\ transitions = <<>>
    /\ \E task \in cleanup_tasks : task.workflow_id = 1 /\ task.wake_at = datetime_now

\* C30: under Fairness every stored workflow that is completed or failed is
\* eventually removed from the store, as long as the orchestrator has not been
\* shut down (after cleanup() the process ends and the store with it); so the
\* store does not keep the workflows that have ended.
C30_EventuallyEvicted ==
    \A w \in 1..MaxWorkflows :
        (w \in Stored /\ active_workflows[w].status \in Terminal)
            ~> (w \notin Stored \/ shutdown)

C30_Witness ==
    /\ next_id = 1
    /\ Stored = {}
    /\ cleanup_tasks = {}
    /\ ~shutdown
    /\ InFlight(1) = 0

\* C31: when the approval call of a workflow in awaiting_approval ends as
\* unavailable, the decision recorded is the fallback 'approve' and the workflow
\* goes from awaiting_approval to executing with the execute call handed to the
\* remediation client; in every state in which that call is awaited, its end as
\* unavailable makes the same stage assignments, issues the same calls and
\* creates the same tasks as a real approve decision.
C31_ApprovalFallbackApproves ==
    \A w \in Stored :
        /\ (/\ CallUnavailable(w, "request_approval")
            /\ transitions # <<>>
            /\ transitions[1][2] = "awaiting_approval") =>
               /\ active_workflows[w].approval_response = mock_approval
               /\ Decision(w) = "approve"
               /\ transitions[1] = <<w, "awaiting_approval", "executing">>
               /\ "remediation" \in a2a_clients =>
                      /\ issued = << <<w, "execute_remediation">> >>
                      /\ active_workflows[w].status = "executing"
        /\ (/\ in_flight[w]["request_approval"] > 0
            /\ active_workflows[w].status = "awaiting_approval") =>
               LET s0 == [Cur EXCEPT !.in_flight[w]["request_approval"] = @ - 1]
                   fallback == _a2a_call_failed(s0, w, "request_approval")
                   approved == _handle_approval_received(s0, w, approve_response)
               IN  /\ fallback.transitions = approved.transitions
                   /\ fallback.issued = approved.issued
                   /\ fallback.in_flight = approved.in_flight
                   /\ fallback.cleanup_tasks = approved.cleanup_tasks
                   /\ fallback.active_workflows[w].status = approved.active_workflows[w].status
                   /\ fallback.active_workflows[w].execution_result
                          = approved.active_workflows[w].execution_result

C31_Witness ==
    /\ 1 \in Stored
    /\ CallUnavailable(1, "request_approval")
    /\ transitions = << <<1, "awaiting_approval", "executing">> >>
    /\ issued = << <<1, "execute_remediation">> >>
    /\ active_workflows[1].approval_response = mock_approval
    /\ in_flight[1]["execute_remediation"] = 1

\* C32: when a collaborator call of a stored workflow succeeds, the field of
\* that stage holds exactly the response when the operation ends, and the
\* operation emits no fallback audit event for that stage, also when the later
\* stages it runs through fall back to their defaults.
C32_RealPayloadUnmodified ==
    [][\A w \in Stored, skill \in Skills : \A response \in Responses(skill) :
          CallSucceeds(w, skill, response) =>
              /\ w \in DOMAIN active_workflows'
              /\ active_workflows'[w][StageField(skill)] = response
              /\ \A i \in DOMAIN audit' : audit'[i] # <<MockFallbackEvent(skill), w>>]_vars

C32_Witness ==
    /\ 1 \in Stored
    /\ requests = 0
    /\ audit # <<>>
    /\ audit[1] = <<"analysis_complete", 1>>
    /\ active_workflows[1].analysis_result = rca_response
    /\ FallbackEvents(1, "analyze_failure") = {}
    /\ FallbackEvents(1, "propose_remediation") # {}
    /\ active_workflows[1].remediation_action = mock_remediation(rca_response)

\* C33: the record a creation inserts is in started with analysis_result,
\* remediation_action, approval_response, execution_result and error_message
\* unset; the first stage assignment of the creation starts from started, and
\* when the creation issues the analysis call it has moved the record from
\* started to analyzing before, and nothing else of the record has changed.
C33_CreatedInStarted ==
    \A w \in WorkflowIds :
        (audit # <<>> /\ audit[1] = <<"workflow_started", w>>) =>
            /\ WorkflowState(datetime_now).status = "started"
            /\ \A f \in PayloadFields : WorkflowState(datetime_now)[f] = None
            /\ WorkflowState(datetime_now).error_message = NoMessage
            /\ w \in Stored
            /\ transitions # <<>>
            /\ transitions[1][1] = w
            /\ transitions[1][2] = "started"
            /\ IssuedFor(w, {"analyze_failure"}) # {} =>
                  /\ transitions = << <<w, "started", "analyzing">> >>
                  /\ issued = << <<w, "analyze_failure">> >>
                  /\ active_workflows[w] = [WorkflowState(datetime_now) EXCEPT !.status = "analyzing"]

C33_Witness ==
    /\ audit # <<>>
    /\ audit[1] = <<"workflow_started", 1>>
    /\ issued = << <<1, "analyze_failure">> >>
    /\ active_workflows[1].status = "analyzing"
    /\ active_workflows[1].analysis_result = None
    /\ in_flight[1]["analyze_failure"] = 1

\* C34: a collaborator call is issued while the workflow is in the stage of the
\* call: the operation that issues it has assigned that stage just before, the
\* coroutine is suspended at the call, and so the workflow is in that stage and
\* the call is the only one of the operation.
C34_CallInItsStage ==
    \A i \in DOMAIN issued :
        LET w == issued[i][1]
            skill == issued[i][2]
        IN  /\ w \in Stored
            /\ active_workflows[w].status = CallStage(skill)
            /\ transitions # <<>>
            /\ transitions[Len(transitions)] [3] = CallStage(skill)
            /\ Len(issued) = 1

C34_Witness ==
    /\ issued = << <<1, "propose_remediation">> >>
    /\ active_workflows[1].status = "proposing"
    /\ transitions = << <<1, "analyzing", "proposing">> >>
    /\ in_flight[1]["propose_remediation"] = 1

\* C35: when an execution result is applied to a workflow in executing (the
\* execute call returned it, the call ended as unavailable and its default is
\* applied, or an execution_complete update brought it), the workflow is
\* completed after the operation and its execution_result is that result.
C35_ExecutionCompletes ==
    [][\A w \in Stored :
          active_workflows[w].status = "executing" =>
              /\ \A response \in Responses("execute_remediation") :
                    (\/ CallSucceeds(w, "execute_remediation", response)
                     \/ UpdateWorkflowStatus(w, "execution_complete", response)) =>
                        /\ w \in DOMAIN active_workflows'
                        /\ active_workflows'[w].status = "completed"
                        /\ active_workflows'[w].execution_result = response
              /\ CallFails(w, "execute_remediation") =>
                    /\ w \in DOMAIN active_workflows'
                    /\ active_workflows'[w].status = "completed"
                    /\ active_workflows'[w].execution_result = mock_execution]_vars

C35_Witness ==
    /\ 1 \in Stored
    /\ audit # <<>>
    /\ audit[1] = <<"execution_complete", 1>>
    /\ transitions = << <<1, "executing", "completed">> >>
    /\ active_workflows[1].execution_result = execution_response
    /\ active_workflows[1].error_message = NoMessage

\* C36: a stage-result update, a failure or a cancel addressed to a workflow
\* that is not in the store (never created, or evicted), and the end of a call
\* of such a workflow, creates no record, leaves every record of the store as it
\* is, issues no call and creates no task.
C36_UnknownIdIgnored ==
    [][\A w \in WorkflowIds \ Stored :
          (\/ \E update \in UpdateStatuses : \E result_data \in ResultData(update) :
                 UpdateWorkflowStatus(w, update, result_data)
           \/ \E request \in CancelRequests(w) : CancelWorkflow(request)
           \/ \E skill \in Skills :
                 \/ \E response \in Responses(skill) : CallSucceeds(w, skill, response)
                 \/ CallFails(w, skill)) =>
              /\ active_workflows' = active_workflows
              /\ cleanup_tasks' = cleanup_tasks
              /\ issued' = <<>>
              /\ transitions' = <<>>]_vars

C36_Witness ==
    /\ status = "running"
    /\ next_id = 0
    /\ requests = MaxRequests
    /\ Stored = {}
    /\ issued = <<>>
    /\ cleanup_tasks = {}

\* C37: the query operations are read-only; the health check, which is the one
\* of them that runs code of the agent on the store, leaves the stage and every
\* field of every stored workflow unchanged, whatever the age of the workflows.
C37_HealthCheckReadOnly ==
    [][HealthCheck =>
          /\ active_workflows' = active_workflows
          /\ cleanup_tasks' = cleanup_tasks]_vars

\* the requests that have left pending
Decided(r) == r \in DOMAIN active_requests /\ active_requests[r].status # "pending"

\* C38: an approval request leaves pending at most once: once it is approved,
\* rejected, expired or cancelled no step changes its status, and
\* handle_approval_decision and cancel_request return false for it.
C38_LeavesPendingOnce ==
    [][\A r \in RequestIds :
          Decided(r) =>
              /\ active_requests'[r].status = active_requests[r].status
              /\ (/\ returned'.op \in {"handle_approval_decision", "cancel_request"}
                  /\ returned'.request_id = r) => ~returned'.result]_vars

\* C39: a decision that arrives after expires_at is refused, the request is
\* never approved by it and a pending request becomes expired; and the callback
\* of a request is invoked at most once.
C39_LateDecisionRefused ==
    [][/\ \A r \in DOMAIN active_requests :
            (/\ returned'.op = "handle_approval_decision"
             /\ returned'.request_id = r
             /\ approval_now > active_requests[r].expires_at) =>
                /\ ~returned'.result
                /\ active_requests'[r].status = "approved" => active_requests[r].status = "approved"
                /\ (active_requests[r].status = "pending" /\ active_requests'[r] # active_requests[r])
                       => active_requests'[r].status = "expired"
                /\ callback_calls'[r] = callback_calls[r]
       /\ \A r \in RequestIds : callback_calls'[r] <= 1]_vars

\* a signed approval arrived after expires_at: the request with a callback is
\* expired, the decision was refused and the callback was not invoked
C39_Witness ==
    /\ returned = [op |-> "handle_approval_decision", request_id |-> 1, result |-> FALSE]
    /\ 1 \in DOMAIN active_requests
    /\ active_requests[1].status = "expired"
    /\ active_requests[1].rejection_reason = NoMessage
    /\ approval_now > active_requests[1].expires_at
    /\ 1 \in approval_callbacks
    /\ callback_calls[1] = 0
    /\ \E r \in RequestIds : callback_calls[r] = 1

====
